---- MODULE Spec2Model ----
(***************************************************************************)
(* SillyTavern-GreetingTools: the persisted greeting metadata store        *)
(* (greetings, indexMap, mainGreeting), the index-based storage functions  *)
(* of data-storage.js and the editor session of GreetingToolsPopup.        *)
(*                                                                         *)
(* Positions are zero-based as in the source; the alternate-greetings      *)
(* list is a TLA+ sequence, so position p is element p + 1.  The greetings *)
(* object is a sequence of records in insertion order (the order           *)
(* Object.entries walks string keys in); the key of a record is its id.    *)
(***************************************************************************)
EXTENDS Integers, Sequences, FiniteSets, TLC

\* ------------------------------------------------------------------ bounds
MaxLen == 2         \* longest alternate-greetings list explored
MaxIds == 3         \* how many identifiers generateGreetingId may hand out
MaxRecords == 2     \* most records of a store that cleanupEmptyEntries is given
MaxClosing == 1     \* most close handlers of the module-level editor awaiting at once

\* ------------------------------------------------------- values of fields
Undef  == "undefined"   \* a string field that is not set on the object
NoHash == -1            \* contentHash not set on the object
NoId   == 0             \* no identifier (undefined / null)

Texts      == {"", "a"}
Titles     == {"", "T"}
Summaries  == {"", "S"}

\* the title and description a confirmed edit popup returns
TitleEdits == {<<"", "">>, <<"T", "D">>}

\* getStringHash of the host (scripts/utils.js): a deterministic number per
\* text.  The host's hash is a 53-bit mix of the characters; here it is the
\* table of the texts explored.
getStringHash(s) ==
    CASE s = ""  -> 5381
      [] s = "a" -> 177670
      [] OTHER   -> 0

\* JavaScript truthiness of an optional string field
Truthy(s) == s # Undef /\ s # ""

\* x ?? d on an optional string field
OrElse(s, d) == IF s = Undef THEN d ELSE s

\* ------------------------------------------------------------------ state
VARIABLES
    alternate_greetings,  \* characters[chid].data.alternate_greetings
    first_mes,            \* characters[chid].first_mes
    greetings,            \* extensions[EXTENSION_KEY].greetings
    indexMap,             \* extensions[EXTENSION_KEY].indexMap
    mainGreeting,         \* extensions[EXTENSION_KEY].mainGreeting
    nextId,               \* the next identifier generateGreetingId returns
    popupOpen,            \* the popup of the GreetingToolsPopup instance is shown
    altStates,            \* GreetingToolsPopup.#altStates
    mainState,            \* GreetingToolsPopup.#mainState
    savePending,          \* the timer of #saveDebounced is running
    lastDelete,           \* history: the id and metadata #handleDelete removed in the step before
    gcBefore,             \* history: <<data>> that cleanupEmptyEntries was last given
    lastSync,             \* history of the last syncIndexMap: its map, the length of the
                          \* list and the positions whose text is as it was then; a write
                          \* to the store forgets it
    this_chid,            \* this_chid of script.js: the selected character, or undefined
    document,             \* a stored extension field as getGreetingToolsData finds it
    loaded,               \* <<loader, what it returned for document>>, or <<>>
    closedTimer,          \* <<states>> of a closed GreetingToolsPopup instance whose
                          \* #saveDebounced timer is still running, or <<>>
    greetingStates,       \* greetingStates of the module-level editor
    mainGreetingState,    \* mainGreetingState of the module-level editor
    currentChid,          \* currentChid of the module-level editor
    popupShown,           \* the popup of the module-level editor is on the screen
    closing,              \* close handlers of the module-level editor that await their saves
    debouncePending       \* the timer of saveAllMetadataDebounced is running

storeVars  == <<greetings, indexMap, mainGreeting>>
hostVars   == <<alternate_greetings, first_mes>>
editorVars == <<popupOpen, altStates, mainState, savePending, lastDelete>>
moduleVars == <<greetingStates, mainGreetingState, currentChid, popupShown, closing,
                debouncePending>>
loadVars   == <<document, loaded>>
extraVars  == <<this_chid, loadVars, closedTimer, moduleVars>>

vars == <<alternate_greetings, first_mes, greetings, indexMap, mainGreeting,
          nextId, popupOpen, altStates, mainState, savePending,
          lastDelete, gcBefore, lastSync, extraVars>>

\* mainGreeting when the stored document has none
NoMain == [id |-> NoId, title |-> Undef, description |-> Undef, contentHash |-> NoHash]

\* #mainState before the first #initializeStates (null)
NoState == [id |-> NoId, content |-> "", title |-> "", description |-> "", contentHash |-> NoHash]

\* no #handleDelete to remember
NoDelete == [id |-> NoId, title |-> "", description |-> ""]

\* the identifier of the one character of the model
Chid == "0"

\* no extension field is stored for the character
NoDocument == [stored |-> FALSE, greetings |-> Undef, indexMap |-> Undef,
               mainGreeting |-> Undef]

\* ------------------------------------------------- the greetings object
Keys(g) == {g[i].id : i \in DOMAIN g}

HasKey(g, id) == id \in Keys(g)

\* g[id]; only used where HasKey(g, id)
Lookup(g, id) == g[CHOOSE i \in DOMAIN g : g[i].id = id]

\* g[id] = rec: an existing key keeps its place, a new key goes last
Put(g, rec) ==
    IF HasKey(g, rec.id)
    THEN [i \in DOMAIN g |-> IF g[i].id = rec.id THEN rec ELSE g[i]]
    ELSE Append(g, rec)

\* delete g[id]
Remove(g, id) == SelectSeq(g, LAMBDA r : r.id # id)

\* the first entry of Object.entries(g) whose contentHash is h, NoId if none
FirstByHash(g, h) ==
    IF \E i \in DOMAIN g : g[i].contentHash = h
    THEN LET i == CHOOSE k \in DOMAIN g :
                    /\ g[k].contentHash = h
                    /\ \A j \in DOMAIN g : g[j].contentHash = h => k <= j
         IN g[i].id
    ELSE NoId

\* DropId that drops nothing
DropId_KeepAll(m, id) == m

\* delete m[p] for every p with m[p] = id
DropId(m, id) == [p \in {q \in DOMAIN m : m[q] # id} |-> m[p]]

\* m[p] = id
SetIndex(m, p, id) == [q \in (DOMAIN m) \cup {p} |-> IF q = p THEN id ELSE m[q]]

EmptyMap == [p \in {} |-> NoId]

\* lastSync while no syncIndexMap is remembered
NeverSynced == [done |-> FALSE, len |-> 0, same |-> {}, map |-> EmptyMap]

\* --------------------------------------------- data-storage.js, reading
getGreetingContent(list, index) ==
    IF index + 1 \in DOMAIN list THEN list[index + 1] ELSE ""

\* getGreetingToolsData of data-storage.js: greetings and indexMap only
getGreetingToolsData == [greetings |-> greetings, indexMap |-> indexMap]

\* getOrCreateGreetingId without its fast path: the mapped identifier is only
\* returned if it is the first record with the content hash
getOrCreateGreetingId_NoFastPath(list, data, index, fresh) ==
    LET content     == getGreetingContent(list, index)
        existingId  == IF index \in DOMAIN data.indexMap THEN data.indexMap[index] ELSE NoId
        byHash      == FirstByHash(data.greetings, getStringHash(content))
    IN  IF existingId # NoId /\ byHash # NoId
        THEN [greetingId |-> byHash, isNew |-> FALSE]
        ELSE [greetingId |-> fresh, isNew |-> TRUE]

\* getOrCreateGreetingId(index): fresh is what generateGreetingId would return
getOrCreateGreetingId(list, data, index, fresh) ==
    LET content     == getGreetingContent(list, index)
        existingId  == IF index \in DOMAIN data.indexMap THEN data.indexMap[index] ELSE NoId
        contentHash == getStringHash(content)
        byHash      == FirstByHash(data.greetings, contentHash)
    IN  IF existingId # NoId
           /\ HasKey(data.greetings, existingId)
           /\ Lookup(data.greetings, existingId).contentHash = contentHash
        THEN [greetingId |-> existingId, isNew |-> FALSE]
        ELSE IF existingId # NoId /\ byHash # NoId
        THEN [greetingId |-> byHash, isNew |-> FALSE]
        ELSE [greetingId |-> fresh, isNew |-> TRUE]

\* findGreetingMetadata(index).greetingId
findGreetingMetadata(list, data, index) ==
    LET contentHash == getStringHash(getGreetingContent(list, index))
        mappedId    == IF index \in DOMAIN data.indexMap THEN data.indexMap[index] ELSE NoId
    IN  IF mappedId # NoId /\ HasKey(data.greetings, mappedId)
        THEN mappedId
        ELSE FirstByHash(data.greetings, contentHash)

getGreetingTitle(list, data, index) ==
    LET gId == findGreetingMetadata(list, data, index)
    IN  IF gId = NoId THEN "" ELSE OrElse(Lookup(data.greetings, gId).title, "")

\* ------------------------------------------- data-storage.js, clean-up
isMetadataEmpty(metadata) == ~Truthy(metadata.title) /\ ~Truthy(metadata.summary)

\* a clean-up loop that passes over the entry after one it deleted
RECURSIVE cleanupLoop_SkipNext(_, _)
cleanupLoop_SkipNext(entries, data) ==
    IF entries = <<>> THEN data
    ELSE LET metadata == Head(entries)
         IN  IF ~Truthy(metadata.title) /\ ~Truthy(metadata.summary)
             THEN cleanupLoop_SkipNext(
                      IF Len(entries) > 1 THEN Tail(Tail(entries)) ELSE <<>>,
                      [greetings |-> SelectSeq(data.greetings, LAMBDA r : r.id # metadata.id),
                       indexMap  |-> [p \in {q \in DOMAIN data.indexMap :
                                                data.indexMap[q] # metadata.id}
                                        |-> data.indexMap[p]]])
             ELSE cleanupLoop_SkipNext(Tail(entries), data)

\* the loop of cleanupEmptyEntries over the entries taken before it started
RECURSIVE cleanupLoop(_, _)
cleanupLoop(entries, data) ==
    IF entries = <<>> THEN data
    ELSE LET metadata == Head(entries)
         IN  IF isMetadataEmpty(metadata)
             THEN cleanupLoop(Tail(entries),
                              [greetings |-> Remove(data.greetings, metadata.id),
                               indexMap  |-> DropId(data.indexMap, metadata.id)])
             ELSE cleanupLoop(Tail(entries), data)

cleanupEmptyEntries(data) == cleanupLoop(data.greetings, data)

\* --------------------------------------------------- identifier supply
\* generateGreetingId: identifiers are handed out in order and never again
CanGenerate(n) == nextId + n - 1 <= MaxIds

\* what a change of the texts from position p on does to it
Changed(p) == [lastSync EXCEPT !.same = {q \in @ : q < p}]

\* what a change of the text at position p alone does to it
ChangedAt(p) == [lastSync EXCEPT !.same = @ \ {p}]

\* ------------------------------------------- data-storage.js, writing
\* a merge that keeps nothing of the record it finds
MergeMetadata_Replace(data, greetingId, updates, contentHash) ==
    [id          |-> greetingId,
     title       |-> updates.title,
     summary     |-> updates.summary,
     description |-> Undef,
     contentHash |-> contentHash]

\* the metadata object of { ...data.greetings[greetingId], ...updates, contentHash }
MergeMetadata(data, greetingId, updates, contentHash) ==
    LET old == IF HasKey(data.greetings, greetingId)
               THEN Lookup(data.greetings, greetingId)
               ELSE [id |-> greetingId, title |-> Undef, summary |-> Undef,
                     description |-> Undef, contentHash |-> NoHash]
    IN  [id          |-> greetingId,
         title       |-> IF updates.title # Undef THEN updates.title ELSE old.title,
         summary     |-> IF updates.summary # Undef THEN updates.summary ELSE old.summary,
         description |-> old.description,
         contentHash |-> contentHash]

\* the data object updateGreetingMetadata(index, updates) saves
UpsertData(list, data, index, updates, fresh) ==
    LET content     == getGreetingContent(list, index)
        greetingId  == getOrCreateGreetingId(list, data, index, fresh).greetingId
        contentHash == getStringHash(content)
        merged      == MergeMetadata(data, greetingId, updates, contentHash)
    IN  cleanupEmptyEntries([greetings |-> Put(data.greetings, merged),
                             indexMap  |-> SetIndex(data.indexMap, index, greetingId)])

\* saveGreetingToolsData(data) of a { greetings, indexMap } object: the whole
\* extension field is replaced, so a stored mainGreeting is not kept
SaveStoreData(data) ==
    /\ greetings' = data.greetings
    /\ indexMap' = data.indexMap
    /\ mainGreeting' = NoMain

Updates ==
    {[title |-> t, summary |-> Undef] : t \in Titles}
        \cup {[title |-> Undef, summary |-> s] : s \in Summaries}

\* updateGreetingMetadata(index, updates), called for a greeting of the list;
\* setGreetingTitle is the title case
UpdateGreetingMetadata(index, updates) ==
    LET data == getGreetingToolsData
        r    == getOrCreateGreetingId(alternate_greetings, data, index, nextId)
    IN  /\ ~popupOpen
        /\ index < Len(alternate_greetings)
        /\ r.isNew => CanGenerate(1)
        /\ SaveStoreData(UpsertData(alternate_greetings, data, index, updates, nextId))
        /\ nextId' = IF r.isNew THEN nextId + 1 ELSE nextId
        /\ lastSync' = NeverSynced
        /\ UNCHANGED <<hostVars, editorVars, gcBefore, extraVars>>

\* an updateContentHash that sets the content hash of every record
HashUpdateData_AllRecords(list, data, index) ==
    LET content    == getGreetingContent(list, index)
        greetingId == IF index \in DOMAIN data.indexMap THEN data.indexMap[index] ELSE NoId
    IN  IF content # "" /\ greetingId # NoId /\ HasKey(data.greetings, greetingId)
        THEN [greetings |-> [i \in DOMAIN data.greetings |->
                                [data.greetings[i] EXCEPT !.contentHash = getStringHash(content)]],
              indexMap  |-> data.indexMap,
              saved     |-> TRUE]
        ELSE [greetings |-> data.greetings, indexMap |-> data.indexMap, saved |-> FALSE]

\* updateContentHash(index)
HashUpdateData(list, data, index) ==
    LET content    == getGreetingContent(list, index)
        greetingId == IF index \in DOMAIN data.indexMap THEN data.indexMap[index] ELSE NoId
    IN  IF content # "" /\ greetingId # NoId /\ HasKey(data.greetings, greetingId)
        THEN [greetings |-> Put(data.greetings,
                                [Lookup(data.greetings, greetingId)
                                    EXCEPT !.contentHash = getStringHash(content)]),
              indexMap  |-> data.indexMap,
              saved     |-> TRUE]
        ELSE [greetings |-> data.greetings, indexMap |-> data.indexMap, saved |-> FALSE]

UpdateContentHash(index) ==
    LET d == HashUpdateData(alternate_greetings, getGreetingToolsData, index)
    IN  /\ ~popupOpen
        /\ index < Len(alternate_greetings)
        /\ d.saved
        /\ SaveStoreData(d)
        /\ lastSync' = NeverSynced
        /\ UNCHANGED <<hostVars, nextId, editorVars, gcBefore, extraVars>>

\* a sync loop that takes the first free record whatever its content hash
RECURSIVE syncLoop_AnyRecord(_, _, _, _, _)
syncLoop_AnyRecord(list, g, i, newIndexMap, usedIds) ==
    IF i >= Len(list) THEN newIndexMap
    ELSE LET free == SelectSeq(g, LAMBDA m : m.id \notin usedIds)
         IN  IF free # <<>>
             THEN syncLoop_AnyRecord(list, g, i + 1,
                                     [q \in (DOMAIN newIndexMap) \cup {i} |->
                                         IF q = i THEN free[1].id ELSE newIndexMap[q]],
                                     usedIds \cup {free[1].id})
             ELSE syncLoop_AnyRecord(list, g, i + 1, newIndexMap, usedIds)

\* a sync loop that never marks the record it matched as used
RECURSIVE syncLoop_NoClaim(_, _, _, _, _)
syncLoop_NoClaim(list, g, i, newIndexMap, usedIds) ==
    IF i >= Len(list) THEN newIndexMap
    ELSE LET contentHash == getStringHash(list[i + 1])
             matchedId   == FirstByHash(g, contentHash)
         IN  IF matchedId # NoId
             THEN syncLoop_NoClaim(list, g, i + 1, SetIndex(newIndexMap, i, matchedId),
                                   usedIds)
             ELSE syncLoop_NoClaim(list, g, i + 1, newIndexMap, usedIds)

\* the loop of syncIndexMap from position i on: the new map and the used ids
RECURSIVE syncLoop(_, _, _, _, _)
syncLoop(list, g, i, newIndexMap, usedIds) ==
    IF i >= Len(list) THEN newIndexMap
    ELSE LET contentHash == getStringHash(list[i + 1])
             free      == SelectSeq(g, LAMBDA m : m.id \notin usedIds)
             matchedId == FirstByHash(free, contentHash)
         IN  IF matchedId # NoId
             THEN syncLoop(list, g, i + 1, SetIndex(newIndexMap, i, matchedId),
                           usedIds \cup {matchedId})
             ELSE syncLoop(list, g, i + 1, newIndexMap, usedIds)

\* a sync whose set of used ids starts from the ids the old map holds
syncIndexMap_KeepUsed(list, data) ==
    [greetings |-> data.greetings,
     indexMap  |-> syncLoop(list, data.greetings, 0, EmptyMap,
                            {data.indexMap[q] : q \in DOMAIN data.indexMap})]

\* a sync that keeps the old entry of a position it finds no record for
syncIndexMap_KeepOld(list, data) ==
    LET m   == syncLoop(list, data.greetings, 0, EmptyMap, {})
        old == {q \in DOMAIN data.indexMap : q < Len(list) /\ q \notin DOMAIN m}
    IN  [greetings |-> data.greetings,
         indexMap  |-> [q \in (DOMAIN m) \cup old |->
                           IF q \in DOMAIN m THEN m[q] ELSE data.indexMap[q]]]

syncIndexMap(list, data) ==
    [greetings |-> data.greetings,
     indexMap  |-> syncLoop(list, data.greetings, 0, EmptyMap, {})]

SyncIndexMap ==
    LET d == syncIndexMap(alternate_greetings, getGreetingToolsData)
    IN  /\ ~popupOpen
        /\ SaveStoreData(d)
        /\ lastSync' = [done |-> TRUE, len |-> Len(alternate_greetings),
                        same |-> {p \in 0..(MaxLen - 1) : p < Len(alternate_greetings)},
                        map  |-> d.indexMap]
        /\ UNCHANGED <<hostVars, nextId, editorVars, gcBefore, extraVars>>

\* cleanupEmptyEntries on the stored data, saved
GarbageCollect ==
    LET data == getGreetingToolsData
    IN  /\ ~popupOpen
        /\ SaveStoreData(cleanupEmptyEntries(data))
        /\ gcBefore' = <<data>>
        /\ lastSync' = NeverSynced
        /\ UNCHANGED <<hostVars, nextId, editorVars, extraVars>>

\* ------------------------------------------- data-storage.js, the owner
\* what the loader returns when there is nothing to load
EmptyData == [greetings |-> <<>>, indexMap |-> EmptyMap]

\* getGreetingToolsData({ chid }) with id = chid ?? this_chid
getGreetingToolsDataFor(id) == IF id = Undef THEN EmptyData ELSE getGreetingToolsData

\* a character is selected in the host
SelectCharacter ==
    /\ this_chid = Undef
    /\ this_chid' = Chid
    /\ UNCHANGED <<hostVars, storeVars, nextId, editorVars, gcBefore, lastSync,
                   loadVars, closedTimer, moduleVars>>

\* the host goes back to a view with no character selected
DeselectCharacter ==
    /\ this_chid = Chid
    /\ ~popupOpen
    /\ this_chid' = Undef
    /\ UNCHANGED <<hostVars, storeVars, nextId, editorVars, gcBefore, lastSync,
                   loadVars, closedTimer, moduleVars>>

\* saveGreetingToolsData(data) with no chid argument
CallSaveGreetingToolsData(data) ==
    IF this_chid = Undef
    THEN UNCHANGED vars
    ELSE /\ ~popupOpen
         /\ SaveStoreData(data)
         /\ lastSync' = NeverSynced
         /\ UNCHANGED <<hostVars, nextId, editorVars, gcBefore, extraVars>>

\* updateGreetingMetadata(index, updates) with no chid argument
CallUpdateGreetingMetadata(index, updates) ==
    IF this_chid = Undef THEN UNCHANGED vars ELSE UpdateGreetingMetadata(index, updates)

\* updateContentHash(index) with no chid argument
CallUpdateContentHash(index) ==
    IF this_chid = Undef THEN UNCHANGED vars ELSE UpdateContentHash(index)

\* a syncIndexMap that does not look at the character id
CallSyncIndexMap_NoCheck == SyncIndexMap

\* syncIndexMap() with no chid argument
CallSyncIndexMap ==
    IF this_chid = Undef THEN UNCHANGED vars ELSE SyncIndexMap

\* ------------------------------------------------ the host owns the list
\* the host's own editor changes, adds and removes alternate greetings; the
\* popup is modal, so it does so while no popup is shown
HostSetText(p, t) ==
    /\ ~popupOpen
    /\ p + 1 \in DOMAIN alternate_greetings
    /\ alternate_greetings[p + 1] # t
    /\ alternate_greetings' = [alternate_greetings EXCEPT ![p + 1] = t]
    /\ lastSync' = ChangedAt(p)
    /\ UNCHANGED <<first_mes, storeVars, nextId, editorVars, gcBefore, extraVars>>

HostAppend(t) ==
    /\ ~popupOpen
    /\ Len(alternate_greetings) < MaxLen
    /\ alternate_greetings' = Append(alternate_greetings, t)
    /\ UNCHANGED <<first_mes, storeVars, nextId, lastSync, editorVars, gcBefore, extraVars>>

HostRemove(p) ==
    /\ ~popupOpen
    /\ p + 1 \in DOMAIN alternate_greetings
    /\ alternate_greetings' =
           [i \in 1..(Len(alternate_greetings) - 1) |->
               IF i <= p THEN alternate_greetings[i] ELSE alternate_greetings[i + 1]]
    /\ lastSync' = Changed(p)
    /\ UNCHANGED <<first_mes, storeVars, nextId, editorVars, gcBefore, extraVars>>

\* ------------------------------------------- GreetingToolsPopup, states
\* getGreetingToolsData of greeting-tools.js: with mainGreeting
getGreetingToolsDataMain ==
    [greetings |-> greetings, indexMap |-> indexMap, mainGreeting |-> mainGreeting]

NewState(id, content, title, description) ==
    [id |-> id, content |-> content, title |-> title, description |-> description,
     contentHash |-> getStringHash(content)]

\* the loop of #initializeStates from list element i on; fresh is the next
\* identifier generateGreetingId returns
RECURSIVE initLoop(_, _, _, _, _)
initLoop(list, g, i, states, fresh) ==
    IF i > Len(list) THEN [states |-> states, fresh |-> fresh]
    ELSE LET content   == list[i]
             matchedId == FirstByHash(g, getStringHash(content))
         IN  IF matchedId # NoId
             THEN LET meta == Lookup(g, matchedId)
                  IN  initLoop(list, g, i + 1,
                               Append(states, NewState(matchedId, content,
                                                       OrElse(meta.title, ""),
                                                       OrElse(meta.description, ""))),
                               fresh)
             ELSE initLoop(list, g, i + 1,
                           Append(states, NewState(fresh, content, "", "")),
                           fresh + 1)

\* #initializeStates: the main state, the alternate states, the next identifier
initializeStates(list, mainContent, metadata, fresh) ==
    LET mainMeta == metadata.mainGreeting
        mainNew  == mainMeta.id = NoId
        main     == NewState(IF mainNew THEN fresh ELSE mainMeta.id, mainContent,
                             OrElse(mainMeta.title, ""), OrElse(mainMeta.description, ""))
        alts     == initLoop(list, metadata.greetings, 1, <<>>,
                             IF mainNew THEN fresh + 1 ELSE fresh)
    IN  [main |-> main, alts |-> alts.states, fresh |-> alts.fresh]

\* the metadata record #saveAllMetadata writes for a state
StateRecord(state) ==
    [id |-> state.id, title |-> state.title, summary |-> Undef,
     description |-> state.description, contentHash |-> state.contentHash]

RECURSIVE saveLoop(_, _, _)
saveLoop(states, i, data) ==
    IF i > Len(states) THEN data
    ELSE saveLoop(states, i + 1,
                  [data EXCEPT !.greetings = Put(@, StateRecord(states[i])),
                               !.indexMap  = SetIndex(@, i - 1, states[i].id)])

\* the data object #saveAllMetadata builds
saveAllMetadata(main, states) ==
    saveLoop(states, 1,
             [greetings    |-> <<>>,
              indexMap     |-> EmptyMap,
              mainGreeting |-> IF main = NoState THEN NoMain
                               ELSE [id |-> main.id, title |-> main.title,
                                     description |-> main.description,
                                     contentHash |-> main.contentHash]])

\* saveGreetingToolsData(data) of the object #saveAllMetadata builds
SaveEditorData(data) ==
    /\ greetings' = data.greetings
    /\ indexMap' = data.indexMap
    /\ mainGreeting' = data.mainGreeting

\* #syncGreetingsToCharacter
Contents(states) == [i \in DOMAIN states |-> states[i].content]

\* altStates.findIndex(s => s.id === id), zero-based; -1 if none
findIndex(states, id) ==
    IF \E i \in DOMAIN states : states[i].id = id
    THEN (CHOOSE i \in DOMAIN states :
              /\ states[i].id = id
              /\ \A j \in DOMAIN states : states[j].id = id => i <= j) - 1
    ELSE -1

\* the identifier the block rendered at position p was made for
BlockId(p) == altStates[p + 1].id

RemoveAt(seq, i) == [j \in 1..(Len(seq) - 1) |-> IF j < i THEN seq[j] ELSE seq[j + 1]]

\* ------------------------------------------ GreetingToolsPopup, handlers
\* show(): a new instance is made and initialised.  It is opened once the
\* timer of the instance before it has fired (debounce_timeout.relaxed).
Show ==
    LET init == initializeStates(alternate_greetings, first_mes,
                                 getGreetingToolsDataMain, nextId)
    IN  /\ ~popupOpen
        /\ init.fresh - 1 <= MaxIds
        /\ ~savePending
        /\ popupOpen' = TRUE
        /\ mainState' = init.main
        /\ altStates' = init.alts
        /\ nextId' = init.fresh
        /\ savePending' = FALSE
        /\ lastDelete' = NoDelete
        /\ lastSync' = NeverSynced
        /\ UNCHANGED <<hostVars, storeVars, gcBefore, extraVars>>

\* an input handler that does not call #syncGreetingsToCharacter
InputAlt_NoSync(p, t) ==
    LET stateIndex == findIndex(altStates, BlockId(p))
    IN  /\ popupOpen
        /\ p < Len(altStates)
        /\ altStates' = [altStates EXCEPT ![stateIndex + 1] =
                            NewState(@.id, t, @.title, @.description)]
        /\ savePending' = TRUE
        /\ lastDelete' = NoDelete
        /\ UNCHANGED <<hostVars, storeVars, nextId, popupOpen, mainState, gcBefore, extraVars, lastSync>>

\* the input handler of the textarea of the block at position p
InputAlt(p, t) ==
    LET stateIndex == findIndex(altStates, BlockId(p))
    IN  /\ popupOpen
        /\ p < Len(altStates)
        /\ altStates' = [altStates EXCEPT ![stateIndex + 1] =
                            NewState(@.id, t, @.title, @.description)]
        /\ alternate_greetings' = Contents(altStates')
        /\ savePending' = TRUE
        /\ lastDelete' = NoDelete
        /\ UNCHANGED <<first_mes, storeVars, nextId, popupOpen, mainState, gcBefore, extraVars, lastSync>>

\* the input handler of the textarea of the main block
InputMain(t) ==
    /\ popupOpen
    /\ mainState # NoState
    /\ mainState' = NewState(mainState.id, t, mainState.title, mainState.description)
    /\ first_mes' = t
    /\ savePending' = TRUE
    /\ lastDelete' = NoDelete
    /\ UNCHANGED <<alternate_greetings, storeVars, nextId, popupOpen, altStates,
                   gcBefore, extraVars, lastSync>>

\* #showEditTitlePopup confirmed for the block at position p
EditTitle(p, title, description) ==
    LET stateIndex == findIndex(altStates, BlockId(p))
    IN  /\ popupOpen
        /\ p < Len(altStates)
        /\ altStates' = [altStates EXCEPT ![stateIndex + 1] =
                            [@ EXCEPT !.title = title, !.description = description]]
        /\ savePending' = TRUE
        /\ lastDelete' = NoDelete
        /\ UNCHANGED <<hostVars, storeVars, nextId, popupOpen, mainState,
                       gcBefore, extraVars, lastSync>>

\* #showEditTitlePopup confirmed for the main block
EditMainTitle(title, description) ==
    /\ popupOpen
    /\ mainState # NoState
    /\ mainState' = [mainState EXCEPT !.title = title, !.description = description]
    /\ savePending' = TRUE
    /\ lastDelete' = NoDelete
    /\ UNCHANGED <<hostVars, storeVars, nextId, popupOpen, altStates,
                   gcBefore, extraVars, lastSync>>

\* a swap that moves the old main state to the end of the alternate states
swapMainWithFirstAlt_Rotate(main, states) ==
    IF main = NoState \/ Len(states) = 0
    THEN [main |-> main, alts |-> states, saved |-> FALSE]
    ELSE [main |-> states[1], alts |-> Append(Tail(states), main), saved |-> TRUE]

\* a swap that exchanges the texts and leaves id, title and description in place
swapMainWithFirstAlt_ContentOnly(main, states) ==
    IF main = NoState \/ Len(states) = 0
    THEN [main |-> main, alts |-> states, saved |-> FALSE]
    ELSE [main  |-> [main EXCEPT !.content = states[1].content,
                                 !.contentHash = states[1].contentHash],
          alts  |-> [states EXCEPT ![1] = [@ EXCEPT !.content = main.content,
                                                    !.contentHash = main.contentHash]],
          saved |-> TRUE]

\* #swapMainWithFirstAlt on the states: the new main state, the new alternate
\* states, and whether it went past its early return
swapMainWithFirstAlt(main, states) ==
    IF main = NoState \/ Len(states) = 0
    THEN [main |-> main, alts |-> states, saved |-> FALSE]
    ELSE [main |-> states[1], alts |-> [states EXCEPT ![1] = main], saved |-> TRUE]

\* the effect of #swapMainWithFirstAlt
SwapEffect ==
    LET r == swapMainWithFirstAlt(mainState, altStates)
    IN  IF ~r.saved
        THEN UNCHANGED <<hostVars, mainState, altStates, savePending, lastDelete>>
        ELSE /\ mainState' = r.main
             /\ altStates' = r.alts
             /\ first_mes' = mainState'.content
             /\ alternate_greetings' = Contents(altStates')
             /\ savePending' = TRUE
             /\ lastDelete' = NoDelete

\* #swapMainWithFirstAlt, from the move-down button of the main block
SwapMainWithFirstAlt ==
    /\ popupOpen
    /\ SwapEffect
    /\ UNCHANGED <<storeVars, nextId, popupOpen, gcBefore, extraVars, lastSync>>

\* a #handleMove without the special case of the first entry moving up
HandleMove_NoSpecialCase(p, direction) ==
    LET index    == findIndex(altStates, BlockId(p))
        newIndex == index + direction
    IN  /\ popupOpen
        /\ p < Len(altStates)
        /\ IF newIndex < 0 \/ newIndex >= Len(altStates)
           THEN UNCHANGED <<hostVars, mainState, altStates, savePending, lastDelete>>
           ELSE /\ altStates' = [altStates EXCEPT ![index + 1] = altStates[newIndex + 1],
                                                  ![newIndex + 1] = altStates[index + 1]]
                /\ alternate_greetings' = Contents(altStates')
                /\ savePending' = TRUE
                /\ lastDelete' = NoDelete
                /\ UNCHANGED <<first_mes, mainState>>
        /\ UNCHANGED <<storeVars, nextId, popupOpen, gcBefore, extraVars, lastSync>>

\* #handleMove(greetingId, direction) from the block at position p
HandleMove(p, direction) ==
    LET index    == findIndex(altStates, BlockId(p))
        newIndex == index + direction
    IN  /\ popupOpen
        /\ p < Len(altStates)
        /\ IF index = 0 /\ direction = -1 /\ mainState # NoState
           THEN SwapEffect
           ELSE IF newIndex < 0 \/ newIndex >= Len(altStates)
           THEN UNCHANGED <<hostVars, mainState, altStates, savePending, lastDelete>>
           ELSE /\ altStates' = [altStates EXCEPT ![index + 1] = altStates[newIndex + 1],
                                                  ![newIndex + 1] = altStates[index + 1]]
                /\ alternate_greetings' = Contents(altStates')
                /\ savePending' = TRUE
                /\ lastDelete' = NoDelete
                /\ UNCHANGED <<first_mes, mainState>>
        /\ UNCHANGED <<storeVars, nextId, popupOpen, gcBefore, extraVars, lastSync>>

\* #handleDelete(greetingId) from the block at position p, confirmed
HandleDelete(p) ==
    LET index == findIndex(altStates, BlockId(p))
    IN  /\ popupOpen
        /\ p < Len(altStates)
        /\ altStates' = RemoveAt(altStates, index + 1)
        /\ alternate_greetings' = Contents(altStates')
        /\ savePending' = TRUE
        /\ lastDelete' = [id          |-> altStates[index + 1].id,
                        title       |-> altStates[index + 1].title,
                        description |-> altStates[index + 1].description]
        /\ UNCHANGED <<first_mes, storeVars, nextId, popupOpen, mainState, gcBefore, extraVars, lastSync>>

\* a #handleAdd that puts the new state first
HandleAdd_AtFront ==
    /\ popupOpen
    /\ Len(altStates) < MaxLen
    /\ CanGenerate(1)
    /\ altStates' = <<NewState(nextId, "", "", "")>> \o altStates
    /\ nextId' = nextId + 1
    /\ alternate_greetings' = Contents(altStates')
    /\ savePending' = TRUE
    /\ lastDelete' = NoDelete
    /\ UNCHANGED <<first_mes, storeVars, popupOpen, mainState, gcBefore, extraVars, lastSync>>

\* #handleAdd
HandleAdd ==
    /\ popupOpen
    /\ Len(altStates) < MaxLen
    /\ CanGenerate(1)
    /\ altStates' = Append(altStates, NewState(nextId, "", "", ""))
    /\ nextId' = nextId + 1
    /\ alternate_greetings' = Contents(altStates')
    /\ savePending' = TRUE
    /\ lastDelete' = NoDelete
    /\ UNCHANGED <<first_mes, storeVars, popupOpen, mainState, gcBefore, extraVars, lastSync>>

\* the timer of #saveDebounced fires: #saveAllMetadata.  Nothing refers to a
\* closed instance once its timer has fired.
SaveDebounced ==
    /\ savePending
    /\ SaveEditorData(saveAllMetadata(mainState, altStates))
    /\ savePending' = FALSE
    /\ altStates' = IF popupOpen THEN altStates ELSE <<>>
    /\ mainState' = IF popupOpen THEN mainState ELSE NoState
    /\ lastDelete' = NoDelete
    /\ lastSync' = NeverSynced
    /\ UNCHANGED <<hostVars, nextId, popupOpen, gcBefore, extraVars>>

\* #onClose: #saveAllMetadata, then the host saves the character.  Nothing
\* refers to the closed instance but its timer, if one is running.
OnClose ==
    /\ popupOpen
    /\ SaveEditorData(saveAllMetadata(mainState, altStates))
    /\ popupOpen' = FALSE
    /\ altStates' = IF savePending THEN altStates ELSE <<>>
    /\ mainState' = IF savePending THEN mainState ELSE NoState
    /\ lastDelete' = NoDelete
    /\ lastSync' = NeverSynced
    /\ UNCHANGED <<hostVars, nextId, savePending, gcBefore, extraVars>>

\* ------------------------------- GreetingToolsPopup, one instance after another
\* show() of a new instance while the timer of the instance closed before it
\* is still running: that instance lives on until its timer fires
Reopen ==
    LET init == initializeStates(alternate_greetings, first_mes,
                                 getGreetingToolsDataMain, nextId)
    IN  /\ ~popupOpen
        /\ savePending
        /\ closedTimer = <<>>
        /\ init.fresh - 1 <= MaxIds
        /\ closedTimer' = <<[main |-> mainState, alts |-> altStates]>>
        /\ popupOpen' = TRUE
        /\ mainState' = init.main
        /\ altStates' = init.alts
        /\ nextId' = init.fresh
        /\ savePending' = FALSE
        /\ lastDelete' = NoDelete
        /\ lastSync' = NeverSynced
        /\ UNCHANGED <<hostVars, storeVars, gcBefore, this_chid, loadVars, moduleVars>>

\* the timer of #saveDebounced of the closed instance fires: its #saveAllMetadata
ClosedTimerFires ==
    /\ closedTimer # <<>>
    /\ SaveEditorData(saveAllMetadata(closedTimer[1].main, closedTimer[1].alts))
    /\ closedTimer' = <<>>
    /\ lastDelete' = NoDelete
    /\ lastSync' = NeverSynced
    /\ UNCHANGED <<hostVars, nextId, popupOpen, altStates, mainState, savePending,
                   gcBefore, this_chid, loadVars, moduleVars>>

\* --------------------------------- the module-level editor of data-storage.js
\* what the module-level editor leaves alone
moduleFrame == <<editorVars, gcBefore, lastSync, this_chid, loadVars, closedTimer>>

\* getGreetingToolsData({ chid: currentChid }) as initializeGreetingStates reads
\* it: the loader of data-storage.js returns no mainGreeting
moduleMetadata ==
    [greetings |-> greetings, indexMap |-> indexMap, mainGreeting |-> NoMain]

\* syncGreetingsToCharacter: setGreetingsArray writes to characters[currentChid]
syncGreetingsToCharacter(states) ==
    IF currentChid = Undef THEN alternate_greetings ELSE Contents(states)

\* saveAllMetadata of the module-level editor, up to its await
ModuleSave ==
    IF currentChid = Undef
    THEN UNCHANGED storeVars
    ELSE SaveEditorData(saveAllMetadata(mainGreetingState, greetingStates))

\* openGreetingToolsPopup(chid): the button can be clicked when no popup is
\* on the screen
OpenGreetingToolsPopup ==
    LET init == initializeStates(alternate_greetings, first_mes, moduleMetadata, nextId)
    IN  /\ ~popupShown
        /\ init.fresh - 1 <= MaxIds
        /\ currentChid' = Chid
        /\ mainGreetingState' = init.main
        /\ greetingStates' = init.alts
        /\ nextId' = init.fresh
        /\ popupShown' = TRUE
        /\ UNCHANGED <<hostVars, storeVars, closing, debouncePending, moduleFrame>>

\* handleAdd
ModuleHandleAdd ==
    /\ popupShown
    /\ Len(greetingStates) < MaxLen
    /\ CanGenerate(1)
    /\ greetingStates' = Append(greetingStates, NewState(nextId, "", "", ""))
    /\ nextId' = nextId + 1
    /\ alternate_greetings' = syncGreetingsToCharacter(greetingStates')
    /\ debouncePending' = TRUE
    /\ UNCHANGED <<first_mes, storeVars, mainGreetingState, currentChid, popupShown,
                   closing, moduleFrame>>

\* the input handler of the textarea of the block at position p
ModuleInput(p, t) ==
    /\ popupShown
    /\ p < Len(greetingStates)
    /\ LET stateIndex == findIndex(greetingStates, greetingStates[p + 1].id)
       IN  greetingStates' = [greetingStates EXCEPT ![stateIndex + 1] =
                                 NewState(@.id, t, @.title, @.description)]
    /\ alternate_greetings' = syncGreetingsToCharacter(greetingStates')
    /\ debouncePending' = TRUE
    /\ UNCHANGED <<first_mes, storeVars, nextId, mainGreetingState, currentChid,
                   popupShown, closing, moduleFrame>>

\* handleEditTitle confirmed for the block at position p
ModuleEditTitle(p, title, description) ==
    /\ popupShown
    /\ p < Len(greetingStates)
    /\ LET stateIndex == findIndex(greetingStates, greetingStates[p + 1].id)
       IN  greetingStates' = [greetingStates EXCEPT ![stateIndex + 1] =
                                 [@ EXCEPT !.title = title, !.description = description]]
    /\ debouncePending' = TRUE
    /\ UNCHANGED <<hostVars, storeVars, nextId, mainGreetingState, currentChid,
                   popupShown, closing, moduleFrame>>

\* the timer of saveAllMetadataDebounced fires
DebounceFires ==
    /\ debouncePending
    /\ ModuleSave
    /\ debouncePending' = FALSE
    /\ UNCHANGED <<hostVars, nextId, greetingStates, mainGreetingState, currentChid,
                   popupShown, closing, moduleFrame>>

\* the popup is closed: onClose runs saveAllMetadata and awaits it and
\* createOrEditCharacter
CloseBegin ==
    /\ popupShown
    /\ closing < MaxClosing
    /\ ModuleSave
    /\ popupShown' = FALSE
    /\ closing' = closing + 1
    /\ UNCHANGED <<hostVars, nextId, greetingStates, mainGreetingState, currentChid,
                   debouncePending, moduleFrame>>

\* onClose goes on after its awaits: the cleanup
CloseEnd ==
    /\ closing > 0
    /\ greetingStates' = <<>>
    /\ mainGreetingState' = NoState
    /\ currentChid' = Undef
    /\ closing' = closing - 1
    /\ UNCHANGED <<hostVars, storeVars, nextId, popupShown, debouncePending, moduleFrame>>

\* --------------------------------------------- getGreetingToolsData, raw
\* the members an extension field can hold
Members == {"greetings", "indexMap", "mainGreeting"}

\* document holds member f
HasMember(doc, f) == doc.stored /\ f \in doc.has

\* getGreetingToolsData of data-storage.js applied to a stored extension field
getGreetingToolsDataOf(doc) ==
    IF ~doc.stored
    THEN [greetings |-> <<>>, indexMap |-> EmptyMap]
    ELSE [greetings |-> IF "greetings" \in doc.has THEN doc.greetings ELSE <<>>,
          indexMap  |-> IF "indexMap" \in doc.has THEN doc.indexMap ELSE EmptyMap]

\* getGreetingToolsData of greeting-tools.js applied to a stored extension field
getGreetingToolsDataMainOf(doc) ==
    IF ~doc.stored
    THEN [greetings |-> <<>>, indexMap |-> EmptyMap, mainGreeting |-> NoMain]
    ELSE [greetings    |-> IF "greetings" \in doc.has THEN doc.greetings ELSE <<>>,
          indexMap     |-> IF "indexMap" \in doc.has THEN doc.indexMap ELSE EmptyMap,
          mainGreeting |-> IF "mainGreeting" \in doc.has THEN doc.mainGreeting ELSE NoMain]

\* getGreetingToolsData() of data-storage.js is called
LoadStorage ==
    /\ loaded' = <<[loader |-> "data-storage.js", result |-> getGreetingToolsDataOf(document)]>>
    /\ UNCHANGED <<hostVars, storeVars, nextId, editorVars, gcBefore, lastSync,
                   this_chid, document, closedTimer, moduleVars>>

\* getGreetingToolsData() of greeting-tools.js is called
LoadTools ==
    /\ loaded' = <<[loader |-> "greeting-tools.js", result |-> getGreetingToolsDataMainOf(document)]>>
    /\ UNCHANGED <<hostVars, storeVars, nextId, editorVars, gcBefore, lastSync,
                   this_chid, document, closedTimer, moduleVars>>

\* ------------------------------------------------------- specifications
Positions == 0..(MaxLen - 1)

\* a character is selected, no stored field has been loaded, no closed instance
\* has a timer running and the module-level editor has not been opened
InitRest ==
    /\ this_chid = Chid
    /\ loaded = <<>>
    /\ closedTimer = <<>>
    /\ greetingStates = <<>>
    /\ mainGreetingState = NoState
    /\ currentChid = Undef
    /\ popupShown = FALSE
    /\ closing = 0
    /\ debouncePending = FALSE

\* the same, and no extension field is looked at
InitExtra == InitRest /\ document = NoDocument

\* a character that the extension has never written to
InitCharacter ==
    /\ alternate_greetings = <<>>
    /\ first_mes = ""
    /\ greetings = <<>>
    /\ indexMap = EmptyMap
    /\ mainGreeting = NoMain
    /\ nextId = 1
    /\ popupOpen = FALSE
    /\ altStates = <<>>
    /\ mainState = NoState
    /\ savePending = FALSE
    /\ lastDelete = NoDelete
    /\ gcBefore = <<>>
    /\ lastSync = NeverSynced

Init == InitExtra /\ InitCharacter

HostNext ==
    \/ \E p \in Positions, t \in Texts : HostSetText(p, t)
    \/ \E t \in Texts : HostAppend(t)
    \/ \E p \in Positions : HostRemove(p)

StoreNext ==
    \/ \E index \in Positions, updates \in Updates : UpdateGreetingMetadata(index, updates)
    \/ \E index \in Positions : UpdateContentHash(index)
    \/ SyncIndexMap

EditorNext ==
    \/ Show
    \/ \E p \in Positions, t \in Texts : InputAlt(p, t)
    \/ \E t \in Texts : InputMain(t)
    \/ \E p \in Positions, m \in TitleEdits : EditTitle(p, m[1], m[2])
    \/ \E m \in TitleEdits : EditMainTitle(m[1], m[2])
    \/ SwapMainWithFirstAlt
    \/ \E p \in Positions, direction \in {-1, 1} : HandleMove(p, direction)
    \/ \E p \in Positions : HandleDelete(p)
    \/ HandleAdd
    \/ SaveDebounced
    \/ OnClose

\* the metadata records the writers leave: updateGreetingMetadata sets title
\* and summary and keeps the other fields, #saveAllMetadata sets title and
\* description
StoredRecords ==
    [id : 1..MaxIds, title : {"", "T"}, summary : {Undef, "S"},
     description : {Undef, "D"}, contentHash : {getStringHash(t) : t \in Texts}]

\* greetings objects of at most MaxRecords records, one per identifier
StoredGreetings ==
    {g \in UNION {[1..n -> StoredRecords] : n \in 0..MaxRecords} :
        \A i, j \in DOMAIN g : i # j => g[i].id # g[j].id}

\* index maps into a greetings object
StoredMaps(g) == UNION {[D -> Keys(g)] : D \in SUBSET Positions}

\* a character whose extension field holds any such store
InitGC ==
    /\ InitExtra
    /\ alternate_greetings = [i \in 1..MaxLen |-> "a"]
    /\ first_mes = ""
    /\ greetings \in StoredGreetings
    /\ indexMap \in StoredMaps(greetings)
    /\ mainGreeting = NoMain
    /\ nextId = MaxIds + 1
    /\ popupOpen = FALSE
    /\ altStates = <<>>
    /\ mainState = NoState
    /\ savePending = FALSE
    /\ lastDelete = NoDelete
    /\ gcBefore = <<>>
    /\ lastSync = NeverSynced

\* cleanupEmptyEntries applied to stored data, any number of times
SpecGC == InitGC /\ [][GarbageCollect]_vars

\* the metadata #saveAllMetadata stores for the main greeting
StoredMains ==
    [id : 1..MaxIds, title : {"", "T"}, description : {"", "D"},
     contentHash : {getStringHash(t) : t \in Texts}]

\* extension fields with any of their members missing; a member that is
\* missing is written with the value the loaders must not read
Documents ==
    {NoDocument} \cup
    {doc \in [stored : {TRUE}, has : SUBSET Members,
              greetings : {g \in StoredGreetings : Len(g) <= 1},
              indexMap : UNION {[D -> 1..MaxIds] : D \in SUBSET Positions},
              mainGreeting : StoredMains \cup {NoMain}] :
        /\ ("greetings" \notin doc.has => doc.greetings = <<>>)
        /\ ("indexMap" \notin doc.has => doc.indexMap = EmptyMap)
        /\ ("mainGreeting" \in doc.has <=> doc.mainGreeting # NoMain)}

\* a character whose extension field is any such document
InitLoad ==
    /\ InitRest
    /\ InitCharacter
    /\ document \in Documents

\* the two loaders applied to stored extension fields
SpecLoad == InitLoad /\ [][LoadStorage \/ LoadTools]_vars

OwnerNext ==
    \/ SelectCharacter
    \/ DeselectCharacter
    \/ (this_chid = Chid /\ HostNext)
    \/ CallSaveGreetingToolsData(EmptyData)
    \/ \E p \in Positions, u \in Updates : CallUpdateGreetingMetadata(p, u)
    \/ \E p \in Positions : CallUpdateContentHash(p)
    \/ CallSyncIndexMap

\* the storage functions called with and without a selected character
SpecOwner == Init /\ [][OwnerNext]_vars

\* the editor opened, edited and closed again and again; a timer started
\* later fires later (both wait debounce_timeout.relaxed)
ReopenNext ==
    \/ Show
    \/ Reopen
    \/ \E p \in Positions, t \in Texts : InputAlt(p, t)
    \/ \E e \in TitleEdits : \E p \in Positions : EditTitle(p, e[1], e[2])
    \/ HandleAdd
    \/ (closedTimer = <<>> /\ SaveDebounced)
    \/ ClosedTimerFires
    \/ OnClose

SpecReopen == Init /\ [][ReopenNext]_vars

ModuleNext ==
    \/ OpenGreetingToolsPopup
    \/ ModuleHandleAdd
    \/ \E p \in Positions, t \in Texts : ModuleInput(p, t)
    \/ \E e \in TitleEdits : \E p \in Positions : ModuleEditTitle(p, e[1], e[2])
    \/ DebounceFires
    \/ CloseBegin
    \/ CloseEnd

\* the module-level editor: its close handler takes two steps
SpecModule == Init /\ [][ModuleNext]_vars

\* the storage functions of data-storage.js on a list the host edits
SpecStore == Init /\ [][HostNext \/ StoreNext]_vars

\* the editor sessions of GreetingToolsPopup
SpecEditor == Init /\ [][EditorNext]_vars

\* the character has not been written to through the editor
EditorUnused == ~popupOpen /\ mainGreeting = NoMain

\* the character has not been written to through the storage functions
StorageUnused ==
    IF EditorUnused
    THEN alternate_greetings = <<>> /\ greetings = <<>> /\ nextId = 1 /\ ~lastSync.done
    ELSE TRUE

\* a character is managed through the storage functions of data-storage.js or
\* through the editor of GreetingToolsPopup
Next ==
    \/ EditorUnused /\ (HostNext \/ StoreNext)
    \/ StorageUnused /\ EditorNext

Spec == Init /\ [][Next]_vars

\* ----------------------------------------------------------------- claims
Injective(m) == \A p, q \in DOMAIN m : p # q => m[p] # m[q]

ListPositions == {p \in Positions : p < Len(alternate_greetings)}

\* what getOrCreateGreetingId(p) returns in the current state
Resolve(p) == getOrCreateGreetingId(alternate_greetings, getGreetingToolsData, p, nextId)

\* some stored record has the content hash of the text now at p
SomeRecordMatches(p) ==
    FirstByHash(greetings, getStringHash(getGreetingContent(alternate_greetings, p))) # NoId

\* the fast path of getOrCreateGreetingId applies at p
FastPath(p) ==
    /\ p \in DOMAIN indexMap
    /\ HasKey(greetings, indexMap[p])
    /\ Lookup(greetings, indexMap[p]).contentHash
           = getStringHash(getGreetingContent(alternate_greetings, p))

\* C2: after any sequence of updateGreetingMetadata and syncIndexMap calls the
\* persisted indexMap is injective: no two positions map to one identifier.
C2_IndexMapInjective == Injective(indexMap)

\* C3: whenever some stored record has the content hash of the text at p,
\* getOrCreateGreetingId(p) returns an existing identifier with isNew = false,
\* with or without a mapping at p; isNew = true only when no record matches.
C3_ResolveReturnsMatch ==
    \A p \in ListPositions :
        SomeRecordMatches(p) <=> (~Resolve(p).isNew /\ HasKey(greetings, Resolve(p).greetingId))

\* C4 as claimed: a position whose text is as it was at the last syncIndexMap
\* resolves through the fast path to the identifier that sync gave it, and no
\* new identifier is made.
C4_UnchangedTextSameId ==
    \A p \in ListPositions :
        (lastSync.done /\ p \in lastSync.same) =>
            /\ FastPath(p)
            /\ ~Resolve(p).isNew
            /\ p \in DOMAIN lastSync.map
            /\ Resolve(p).greetingId = lastSync.map[p]

\* C4 as amended: a position that the last syncIndexMap mapped, whose text is
\* as it was then, with no write to the store since, resolves through the fast
\* path to the identifier that sync gave it, and no new identifier is made.
C4_MappedUnchangedSameId ==
    \A p \in ListPositions :
        (lastSync.done /\ p \in lastSync.same /\ p \in DOMAIN lastSync.map) =>
            /\ FastPath(p)
            /\ Resolve(p) = [greetingId |-> lastSync.map[p], isNew |-> FALSE]

\* C4 witness: after a sync, position 1 is still mapped and unchanged while the
\* text at position 0 has been edited, and two records share a content hash
C4_Witness ==
    /\ lastSync.done
    /\ 1 \in ListPositions /\ 1 \in lastSync.same /\ 1 \in DOMAIN lastSync.map
    /\ 0 \notin lastSync.same
    /\ Len(greetings) = 2 /\ greetings[1].contentHash = greetings[2].contentHash

\* a record with neither a title nor a description
NoTitleNoDescription(r) == ~Truthy(r.title) /\ ~Truthy(r.description)

\* the identifiers of the editor's alternate states, by position
StateIds(states) == [q \in 0..(Len(states) - 1) |-> states[q + 1].id]

\* C1: in an editor session no two positions of the alternate list hold the
\* same identifier, also when two entries have identical text.
C1_EditorIdsUnique ==
    \A i, j \in DOMAIN altStates : i # j => altStates[i].id # altStates[j].id

\* C5: the save that follows #handleDelete of the entry at position p maps the
\* remaining entries, in order, at positions 0..len-1 with their identifiers,
\* leaves the deleted entry unmapped and keeps its record in the store exactly
\* when the record has a title or a description.
C5_DeleteThenSave ==
    [][(lastDelete.id # NoId /\ (SaveDebounced \/ OnClose)) =>
          /\ alternate_greetings = Contents(altStates)
          /\ indexMap' = StateIds(altStates)
          /\ HasKey(greetings', lastDelete.id) <=> ~NoTitleNoDescription(lastDelete)]_vars

\* C6: cleanupEmptyEntries removes a record if and only if its title and its
\* description are both unset or empty, whatever its content hash.
C6_RemovesIffNoTitleNoDescription ==
    gcBefore # <<>> =>
        \A i \in DOMAIN gcBefore[1].greetings :
            LET r == gcBefore[1].greetings[i]
            IN  ~HasKey(greetings, r.id) <=> NoTitleNoDescription(r)

\* C7: after every metadata write the persisted greetings hold no record whose
\* title and description are both empty, and indexMap has no entry that points
\* at such a record.
C7_NoEmptyRecordPersists ==
    /\ \A i \in DOMAIN greetings : ~NoTitleNoDescription(greetings[i])
    /\ \A p \in DOMAIN indexMap :
           HasKey(greetings, indexMap[p]) => ~NoTitleNoDescription(Lookup(greetings, indexMap[p]))

C9_IndexMapKeysValid == DOMAIN indexMap \subseteq ListPositions

\* C10: cleanupEmptyEntries is idempotent: applied to what it returned, it
\* returns the same greetings and the same indexMap.
C10_CleanupIdempotent ==
    gcBefore # <<>> => cleanupEmptyEntries(getGreetingToolsData) = getGreetingToolsData

\* C10 witness: cleanupEmptyEntries removed a record and its index entry from a
\* store of two records in which the record after the removed one stayed
C10_Witness ==
    /\ gcBefore # <<>>
    /\ Len(gcBefore[1].greetings) = 2 /\ Len(greetings) = 1
    /\ greetings[1] = gcBefore[1].greetings[2]
    /\ DOMAIN indexMap # DOMAIN gcBefore[1].indexMap
    /\ indexMap # EmptyMap

\* the list and the store are as the last syncIndexMap left them
UnchangedSinceSync ==
    lastSync.done /\ lastSync.len = Len(alternate_greetings) /\ lastSync.same = ListPositions

\* C11: syncIndexMap called again, with no change to the list or to the records
\* since the call before, yields the map that call yielded.
C11_SyncTwiceSameMap ==
    UnchangedSinceSync =>
        /\ indexMap = lastSync.map
        /\ syncIndexMap(alternate_greetings, getGreetingToolsData).indexMap = lastSync.map

\* C11 witness: a sync has mapped two positions with the same text to two
\* records with the same content hash
C11_Witness ==
    /\ UnchangedSinceSync
    /\ Len(alternate_greetings) = 2 /\ alternate_greetings[1] = alternate_greetings[2]
    /\ Len(greetings) = 2 /\ greetings[1].contentHash = greetings[2].contentHash
    /\ DOMAIN indexMap = {0, 1} /\ indexMap[0] # indexMap[1]

\* no stored record has the content hash of any text of the list
NovelList == \A p \in ListPositions : ~SomeRecordMatches(p)

\* C12 as claimed: on a list whose content hashes all differ from every stored
\* record's, syncIndexMap maps every position to an identifier of its own.
C12_SyncAssignsFreshIds ==
    [][(SyncIndexMap /\ NovelList) =>
          /\ DOMAIN indexMap' = ListPositions
          /\ Injective(indexMap')]_vars

\* C12 as amended: on such a list syncIndexMap leaves every position unmapped,
\* generates no identifier and leaves the records as they are.
C12_SyncLeavesNovelUnmapped ==
    [][(SyncIndexMap /\ NovelList) =>
          /\ indexMap' = EmptyMap
          /\ nextId' = nextId
          /\ greetings' = greetings]_vars

\* C12 witness: a sync has left a list of two texts unmapped while the store
\* holds a record with another content hash
C12_Witness ==
    /\ UnchangedSinceSync
    /\ Len(alternate_greetings) = 2
    /\ greetings # <<>>
    /\ NovelList
    /\ indexMap = EmptyMap

\* the editor is shown with at least n alternate states
Editing(n) == popupOpen /\ mainState # NoState /\ Len(altStates) >= n

\* C13: #swapMainWithFirstAlt applied twice restores the main state and the
\* first alternate state (content, id, title, description) and with them
\* first_mes and alternate_greetings.
C13_SwapTwiceRestores ==
    Editing(1) =>
        LET once  == swapMainWithFirstAlt(mainState, altStates)
            twice == swapMainWithFirstAlt(once.main, once.alts)
        IN  /\ once.saved /\ twice.saved
            /\ twice.main = mainState
            /\ twice.alts = altStates
            /\ twice.main.content = first_mes
            /\ Contents(twice.alts) = alternate_greetings

\* C13 witness: a swap has put the state made for the first alternate greeting
\* in the main slot; the two states differ in text and title
C13_Witness ==
    /\ Editing(1)
    /\ mainState.id = 2 /\ altStates[1].id = 1
    /\ mainState.content # altStates[1].content
    /\ mainState.title # altStates[1].title

\* what #swapMainWithFirstAlt does when there is a first alternate state
SwapPost ==
    /\ mainState' = altStates[1]
    /\ altStates' = [altStates EXCEPT ![1] = mainState]
    /\ first_mes' = altStates[1].content
    /\ alternate_greetings' = [alternate_greetings EXCEPT ![1] = mainState.content]
    /\ savePending'
    /\ UNCHANGED <<storeVars, nextId, popupOpen>>

\* C14: #swapMainWithFirstAlt exchanges the main state and the first alternate
\* state as wholes, leaves the alternate states from position 1 on as they
\* are, and changes nothing and schedules no save when there is no alternate
\* state.
C14_SwapExchangesWholeStates ==
    popupOpen /\ mainState # NoState =>
        IF Len(altStates) = 0
        THEN ~ENABLED (SwapMainWithFirstAlt /\ vars' # vars)
        ELSE /\ ENABLED (SwapMainWithFirstAlt /\ SwapPost)
             /\ ~ENABLED (SwapMainWithFirstAlt /\ ~SwapPost)

\* C14 witness: a swap has acted in a session with two alternate states, the
\* second of which is in its place
C14_Witness ==
    /\ Editing(2)
    /\ mainState.id = 2 /\ altStates[1].id = 1 /\ altStates[2].id = 3
    /\ savePending

\* seq with the elements at i and j exchanged
Exchange(seq, i, j) == [seq EXCEPT ![i] = seq[j], ![j] = seq[i]]

\* what #handleMove does from position p, other than from position 0 upwards
MovePost(p, direction) ==
    IF p + direction >= 0 /\ p + direction < Len(altStates)
    THEN /\ altStates' = Exchange(altStates, p + 1, p + direction + 1)
         /\ alternate_greetings' = Exchange(alternate_greetings, p + 1, p + direction + 1)
         /\ savePending'
         /\ UNCHANGED <<first_mes, mainState, storeVars, nextId, popupOpen>>
    ELSE UNCHANGED vars

\* C15: #handleMove from the entry at position p exchanges the states at p and
\* p + direction and leaves the other positions and the main state as they
\* are; when p + direction is outside the list nothing changes.
C15_MoveExchangesNeighbours ==
    \A p \in Positions, direction \in {-1, 1} :
        (Editing(p + 1) /\ ~(p = 0 /\ direction = -1)) =>
            /\ ENABLED (HandleMove(p, direction) /\ MovePost(p, direction))
            /\ ~ENABLED (HandleMove(p, direction) /\ ~MovePost(p, direction))

\* C16: moving the entry at position 0 up produces the state that
\* #swapMainWithFirstAlt produces, never a plain move and never nothing.
C16_MoveUpAtTopIsSwap ==
    Editing(1) =>
        /\ ENABLED (HandleMove(0, -1) /\ SwapPost)
        /\ ~ENABLED (HandleMove(0, -1) /\ ~SwapPost)
        /\ ~ENABLED (SwapMainWithFirstAlt /\ ~SwapPost)

\* C16 witness: the entry at position 0 of two has gone to the main slot and
\* the save of it is still pending on a store never written
C16_Witness ==
    /\ Editing(2)
    /\ mainState.id = 2 /\ altStates[1].id = 1
    /\ savePending /\ mainGreeting = NoMain

\* the identifiers a session and the store hold
IdsInUse ==
    {altStates[i].id : i \in DOMAIN altStates} \cup {mainState.id, mainGreeting.id}
        \cup Keys(greetings)

\* what #handleAdd does
AddPost ==
    /\ Len(altStates') = Len(altStates) + 1
    /\ SubSeq(altStates', 1, Len(altStates)) = altStates
    /\ altStates'[Len(altStates')].id \notin IdsInUse
    /\ altStates'[Len(altStates')].title = ""
    /\ altStates'[Len(altStates')].description = ""
    /\ altStates'[Len(altStates')].content = ""
    /\ alternate_greetings' = Append(alternate_greetings, "")
    /\ savePending'
    /\ UNCHANGED <<first_mes, mainState, storeVars, popupOpen>>

\* C17: #handleAdd appends one state with a new identifier, unlike the main
\* state's and every alternate state's, with empty title and description, and
\* leaves the states before it as they are.
C17_AddAppendsFreshEntry ==
    (popupOpen /\ Len(altStates) < MaxLen /\ CanGenerate(1)) =>
        /\ ENABLED (HandleAdd /\ AddPost)
        /\ ~ENABLED (HandleAdd /\ ~AddPost)

\* C17 witness: an entry has been added after one that has a text and a title
C17_Witness ==
    /\ Editing(2)
    /\ altStates[1].content = "a" /\ altStates[1].title = "T"
    /\ altStates[2] = NewState(nextId - 1, "", "", "")
    /\ altStates[1].id # altStates[2].id

\* the record updateGreetingMetadata(index, updates) merges, before the clean-up
Merged(index, updates) ==
    MergeMetadata(getGreetingToolsData, Resolve(index).greetingId, updates,
                  getStringHash(getGreetingContent(alternate_greetings, index)))

\* C18: when updateGreetingMetadata leaves the record of position p with an
\* empty title and an empty description, the store it saves has neither that
\* record nor an indexMap entry for p.
C18_UpsertDropsEmptyRecord ==
    [][\A index \in Positions, updates \in Updates :
          (UpdateGreetingMetadata(index, updates)
             /\ NoTitleNoDescription(Merged(index, updates))) =>
              /\ ~HasKey(greetings', Resolve(index).greetingId)
              /\ index \notin DOMAIN indexMap']_vars

\* C19: updateGreetingMetadata at position p with a non-empty title leaves the
\* record of the identifier resolved for p in the store, with the new title,
\* its other fields as they were, the content hash of the text now at p, and
\* p mapped to that identifier.
C19_UpsertMergesTitle ==
    [][\A index \in Positions, updates \in {u \in Updates : Truthy(u.title)} :
          (index < Len(alternate_greetings) /\ UpdateGreetingMetadata(index, updates)) =>
              LET id  == Resolve(index).greetingId
                  had == HasKey(greetings, id)
                  new == Lookup(greetings', id)
              IN  /\ HasKey(greetings', id)
                  /\ new.title = updates.title
                  /\ new.summary = IF had THEN Lookup(greetings, id).summary ELSE Undef
                  /\ new.description = IF had THEN Lookup(greetings, id).description ELSE Undef
                  /\ new.contentHash = getStringHash(alternate_greetings[index + 1])
                  /\ index \in DOMAIN indexMap' /\ indexMap'[index] = id]_vars

\* C19 witness: the record mapped at position 0 has a summary from one upsert
\* and a title from another, and the content hash of the text at position 0
C19_Witness ==
    /\ ~popupOpen /\ mainGreeting = NoMain
    /\ 0 \in ListPositions /\ FastPath(0)
    /\ Lookup(greetings, indexMap[0]).title = "T"
    /\ Lookup(greetings, indexMap[0]).summary = "S"

Claimed(p) == {indexMap[q] : q \in {r \in DOMAIN indexMap : r < p}}

\* the records, in insertion order, that have the content hash of the text at
\* position p and that no position before p is mapped to
UnclaimedMatches(p) ==
    SelectSeq(greetings,
              LAMBDA m : /\ m.id \notin Claimed(p)
                         /\ m.contentHash = getStringHash(alternate_greetings[p + 1]))

\* C24: syncIndexMap goes through the positions from 0 upward and gives each
\* the first record, in insertion order, that has the content hash of its text
\* and that no earlier position was given; the map is injective, and a position
\* with no such record left is not mapped.
C24_SyncFirstUnclaimedMatch ==
    UnchangedSinceSync =>
        /\ Injective(indexMap)
        /\ DOMAIN indexMap \subseteq ListPositions
        /\ \A p \in ListPositions :
              IF UnclaimedMatches(p) = <<>>
              THEN p \notin DOMAIN indexMap
              ELSE p \in DOMAIN indexMap /\ indexMap[p] = UnclaimedMatches(p)[1].id

\* C24 witness: a sync of two equal texts against a store with one record of
\* their content hash and one of another has mapped position 0 only
C24_Witness ==
    /\ UnchangedSinceSync
    /\ Len(alternate_greetings) = 2 /\ alternate_greetings[1] = alternate_greetings[2]
    /\ Len(greetings) = 2 /\ greetings[1].contentHash # greetings[2].contentHash
    /\ DOMAIN indexMap = {0}
    /\ UnclaimedMatches(1) = <<>>

\* C25: what syncIndexMap saves depends on the list and on the records only:
\* started from any other index map it saves the same map, and it saves the
\* records as they were.
C25_SyncIgnoresOldMap ==
    [][SyncIndexMap =>
          /\ greetings' = greetings
          /\ \A m \in StoredMaps(greetings) :
                syncIndexMap(alternate_greetings,
                             [greetings |-> greetings, indexMap |-> m])
                    = [greetings |-> greetings', indexMap |-> indexMap']]_vars

\* C25 witness: a sync has mapped two different texts to the two records of
\* the store
C25_Witness ==
    /\ UnchangedSinceSync
    /\ Len(alternate_greetings) = 2 /\ alternate_greetings[1] # alternate_greetings[2]
    /\ Len(greetings) = 2
    /\ DOMAIN indexMap = {0, 1}

\* C26: while the editor is open the character's alternate greetings are the
\* contents of the alternate states, in order, and its first message is the
\* content of the main state.
C26_ListFollowsStates ==
    popupOpen =>
        /\ alternate_greetings = Contents(altStates)
        /\ first_mes = mainState.content

\* C26 witness: texts were typed into the main block and into the first of
\* two alternate blocks and not saved yet
C26_Witness ==
    /\ Editing(2)
    /\ savePending
    /\ first_mes = "a"
    /\ alternate_greetings = <<"a", "">>

\* the list with the text at position p replaced by t
WithText(p, t) == [alternate_greetings EXCEPT ![p + 1] = t]

\* position p is mapped to a stored record
MappedToRecord(p) == p \in DOMAIN indexMap /\ HasKey(greetings, indexMap[p])

\* C27: after the text at a mapped position p changes to any other text, the
\* empty string included, and updateContentHash(p) is called, getGreetingTitle(p)
\* returns the title it returned before and getOrCreateGreetingId(p) returns the
\* identifier p was mapped to, not a new one.
C27_RefreshKeepsTitleAndId ==
    \A p \in ListPositions : \A t \in Texts \ {alternate_greetings[p + 1]} :
        MappedToRecord(p) =>
            LET d == HashUpdateData(WithText(p, t), getGreetingToolsData, p)
            IN  /\ getGreetingTitle(WithText(p, t), d, p)
                      = getGreetingTitle(alternate_greetings, getGreetingToolsData, p)
                /\ getOrCreateGreetingId(WithText(p, t), d, p, nextId)
                      = [greetingId |-> indexMap[p], isNew |-> FALSE]

\* C28: the read path and the write path agree: when getGreetingTitle(p) reads
\* a record, by the index map or by the content hash, updateGreetingMetadata(p)
\* in the same state writes to that record.
C28_ReadAndWriteSameRecord ==
    \A p \in ListPositions :
        LET read == findGreetingMetadata(alternate_greetings, getGreetingToolsData, p)
        IN  read # NoId => Resolve(p) = [greetingId |-> read, isNew |-> FALSE]

\* C29: saving the states and initialising a new session from what was saved,
\* the list unchanged, gives the main greeting and every position the
\* identifier, title and description they had.
C29_SaveThenInitRoundTrip ==
    popupOpen =>
        LET data == saveAllMetadata(mainState, altStates)
            init == initializeStates(Contents(altStates), mainState.content, data, nextId)
            Same(s, u) == s.id = u.id /\ s.title = u.title /\ s.description = u.description
        IN  /\ Same(init.main, mainState)
            /\ Len(init.alts) = Len(altStates)
            /\ \A i \in DOMAIN altStates : Same(init.alts[i], altStates[i])

\* C22: getGreetingToolsData is total over malformed stored fields: whichever
\* of mainGreeting, greetings and indexMap are missing, or the whole field, what
\* it returns has all three members, a missing one as an empty container and
\* a present one as stored.
C22_LoadReturnsThreeMembers ==
    loaded # <<>> =>
        LET r == loaded[1].result
        IN  /\ DOMAIN r = Members
            /\ r.greetings = IF HasMember(document, "greetings")
                             THEN document.greetings ELSE <<>>
            /\ r.indexMap = IF HasMember(document, "indexMap")
                            THEN document.indexMap ELSE EmptyMap
            /\ r.mainGreeting = IF HasMember(document, "mainGreeting")
                                THEN document.mainGreeting ELSE NoMain

\* C21: with no character selected, save, upsert, hash refresh and sync leave
\* the persisted store as it is and write nothing to the host, and a load
\* returns empty containers for greetings and indexMap.
C21_NoOwnerNoWrite ==
    [][this_chid = Undef =>
          /\ storeVars' = storeVars
          /\ getGreetingToolsDataFor(this_chid) = EmptyData]_vars

\* C21 witness: no character is selected while the store holds a record and
\* an index map that a sync of the list would replace
C21_Witness ==
    /\ this_chid = Undef
    /\ greetings # <<>>
    /\ alternate_greetings # <<>>
    /\ syncIndexMap(alternate_greetings, getGreetingToolsData).indexMap # indexMap

\* what the store holds is the data object #saveAllMetadata builds from the
\* states of the instance
StoreIsSnapshot ==
    LET data == saveAllMetadata(mainState, altStates)
    IN  /\ greetings = data.greetings
        /\ indexMap = data.indexMap
        /\ mainGreeting = data.mainGreeting

\* C23: a write-back follows the edits of a session: once the popup has been
\* closed the persisted store is the full snapshot of the latest state of the
\* session, and no snapshot taken earlier is written over it.
C23_ClosedStoreIsLatestSnapshot ==
    (~popupOpen /\ mainState # NoState) => StoreIsSnapshot

\* C30: in the module-level editor the close handler of one session does not
\* destroy the state of another: a session whose popup is on the screen keeps
\* its owner id and its states, also when the close handler of the session
\* before it is still awaiting its saves, and what it holds when it is closed
\* is persisted.
C30_CloseLeavesOtherSession ==
    /\ popupShown =>
          /\ currentChid = Chid
          /\ mainGreetingState # NoState
          /\ alternate_greetings = Contents(greetingStates)
    /\ (closing > 0 /\ ~popupShown) =>
          LET data == saveAllMetadata(mainGreetingState, greetingStates)
          IN  /\ mainGreetingState # NoState
              /\ greetings = data.greetings
              /\ indexMap = data.indexMap
              /\ mainGreeting = data.mainGreeting

====
